---- MODULE Spec2Model ----
(***************************************************************************)
(* Model of src/API/streamlit_app.py: the audio ingestion pipeline of the  *)
(* deepfake voice detection app.  Each session runs main(); a click on     *)
(* "Run analysis" runs either process_audio_file (upload mode) or the      *)
(* inline record branch of main.  The file system (temporary directories   *)
(* and the files written) is shared by all sessions.                       *)
(*                                                                         *)
(* Conventions: an unbound Python local is the empty tuple << >>, a bound  *)
(* one is the one-element tuple <<value>>; a library call's outcome is     *)
(* << >> when it raises and <<value>> when it returns value.  A path is    *)
(* the sequence of its components from the root.                           *)
(***************************************************************************)
EXTENDS Integers, Sequences, FiniteSets, TLC

\* ---------------------------------------------------------------- bounds
NumSessions == 2
MaxSamples == 2
NumDirNames == 2

\* ------------------------------------------------------------- constants
target_sr == 16000
NaN == -1
Success == 1
Failure == 0

Unbound == << >>
Some(x) == <<x>>
Raised == << >>
Returned(x) == <<x>>

Sessions == 1..NumSessions

\* ------------------------------------------------------------ file names
TmpRoot == <<"tmp">>
AllDirNames == <<"tmpA", "tmpB", "tmpC", "tmpD", "tmpE">>
DirNames == {AllDirNames[k] : k \in 1..NumDirNames}

\* declared file names of the incoming blob (UploadedFile.name)
Names ==
  { [abs |-> FALSE, parts |-> <<"a.wav">>],
    [abs |-> FALSE, parts |-> <<"sub", "a.wav">>],
    [abs |-> FALSE, parts |-> <<"..", "a.wav">>],
    [abs |-> TRUE,  parts |-> <<"tmp", "a.wav">>] }

\* os.path.join(temp_dir, name): an absolute second argument discards the first
Join(dir, name) == IF name.abs THEN name.parts ELSE dir \o name.parts

\* path resolution done by the operating system at open(): ".." steps up
RECURSIVE ResolveFrom(_, _)
ResolveFrom(acc, rest) ==
  IF rest = << >> THEN acc
  ELSE IF Head(rest) = ".."
       THEN ResolveFrom(IF acc = << >> THEN acc ELSE SubSeq(acc, 1, Len(acc) - 1),
                        Tail(rest))
       ELSE ResolveFrom(Append(acc, Head(rest)), Tail(rest))
Resolve(path) == ResolveFrom(<< >>, path)

IsPrefix(p, q) == Len(p) <= Len(q) /\ SubSeq(q, 1, Len(p)) = p
Inside(dir, path) == Len(Resolve(path)) > Len(dir) /\ IsPrefix(dir, Resolve(path))
Parent(path) == SubSeq(path, 1, Len(path) - 1)

\* ---------------------------------------------------------- audio content
SampleVals == {-2, 2}
NativeRates == {8000, 16000, 48000}
PitchVals == {120}
EnergyVals == {3}

RECURSIVE SeqsUpTo(_, _)
SeqsUpTo(S, n) ==
  IF n = 0 THEN {<< >>}
  ELSE LET shorter == SeqsUpTo(S, n - 1)
       IN  shorter \cup {Append(s, x) : s \in shorter, x \in S}

Frames(ch) == IF ch = 1 THEN {<<v>> : v \in SampleVals}
              ELSE {<<l, r>> : l \in SampleVals, r \in SampleVals}

Corrupt == [ok |-> FALSE, sr |-> 0, ch |-> 0, frames |-> << >>]
AudioContents ==
  UNION { { [ok |-> TRUE, sr |-> r, ch |-> c, frames |-> f] :
              f \in SeqsUpTo(Frames(c), MaxSamples) } :
          r \in NativeRates, c \in {1, 2} }
Contents == {Corrupt} \cup AudioContents

RECURSIVE Gcd(_, _)
Gcd(a, b) == IF b = 0 THEN a ELSE Gcd(b, a % b)
\* a non-negative rational in lowest terms
Frac(n, d) == LET g == Gcd(n, d) IN [num |-> n \div g, den |-> d \div g]
Zero == [num |-> 0, den |-> 1]

CeilDiv(a, b) == (a + b - 1) \div b

\* np.mean(y, axis=1)
MonoMean(frames) ==
  [k \in 1..Len(frames) |-> (frames[k][1] + frames[k][2]) \div 2]
FirstChannel(frames) == [k \in 1..Len(frames) |-> frames[k][1]]

\* librosa.resample: the output has ceil(n * target / orig) samples; the
\* band-limited interpolation is abstracted to the nearest earlier sample
resample(y, orig_sr, new_sr) ==
  [k \in 1..CeilDiv(Len(y) * new_sr, orig_sr) |->
      y[((k - 1) * orig_sr) \div new_sr + 1]]

\* librosa.get_duration(y=y, sr=sr)
get_duration(y, sr) == Frac(Len(y), sr)

default_info ==
  [samples |-> 0, sr |-> 0, duration |-> Zero, avg_pitch |-> NaN,
   avg_energy |-> NaN, waveform |-> << >>]

\* extract_audio_metadata(filepath), given what sf.read finds in the file
\* (<< >> when the file is missing) and the outcomes of the library calls.
\* The result is Raised or Returned(profile).
NoSrAssign_extract(found, resampleOK, yin, rms) ==
  IF found = << >> \/ ~found[1].ok THEN Raised
  ELSE LET c == found[1]
           y0 == IF c.ch > 1 THEN MonoMean(c.frames) ELSE FirstChannel(c.frames)
       IN  IF c.sr # target_sr /\ ~resampleOK THEN Raised
           ELSE LET y == IF c.sr # target_sr THEN resample(y0, c.sr, target_sr) ELSE y0
                    sr == c.sr
                IN  Returned([samples |-> Len(y), sr |-> sr,
                              duration |-> get_duration(y, sr),
                              avg_pitch |-> IF yin = Raised THEN NaN ELSE yin[1],
                              avg_energy |-> IF rms = Raised THEN NaN ELSE rms[1],
                              waveform |-> y])

SharedTry_extract(found, resampleOK, yin, rms) ==
  IF found = << >> \/ ~found[1].ok THEN Raised
  ELSE LET c == found[1]
           y0 == IF c.ch > 1 THEN MonoMean(c.frames) ELSE FirstChannel(c.frames)
       IN  IF c.sr # target_sr /\ ~resampleOK THEN Raised
           ELSE LET y == IF c.sr # target_sr THEN resample(y0, c.sr, target_sr) ELSE y0
                    sr == target_sr
                IN  Returned([samples |-> Len(y), sr |-> sr,
                              duration |-> get_duration(y, sr),
                              avg_pitch |-> IF yin = Raised THEN NaN ELSE yin[1],
                              avg_energy |-> IF yin = Raised \/ rms = Raised
                                             THEN NaN ELSE rms[1],
                              waveform |-> y])

Assume44100_extract(found, resampleOK, yin, rms) ==
  IF found = << >> \/ ~found[1].ok THEN Raised
  ELSE LET c == found[1]
           y0 == IF c.ch > 1 THEN MonoMean(c.frames) ELSE FirstChannel(c.frames)
           y == resample(y0, 44100, target_sr)
           sr == target_sr
       IN  Returned([samples |-> Len(y), sr |-> sr,
                     duration |-> get_duration(y, sr),
                     avg_pitch |-> IF yin = Raised THEN NaN ELSE yin[1],
                     avg_energy |-> IF rms = Raised THEN NaN ELSE rms[1],
                     waveform |-> y])

NativeDuration_extract(found, resampleOK, yin, rms) ==
  IF found = << >> \/ ~found[1].ok THEN Raised
  ELSE LET c == found[1]
           y0 == IF c.ch > 1 THEN MonoMean(c.frames) ELSE FirstChannel(c.frames)
       IN  IF c.sr # target_sr /\ ~resampleOK THEN Raised
           ELSE LET y == IF c.sr # target_sr THEN resample(y0, c.sr, target_sr) ELSE y0
                    sr == target_sr
                IN  Returned([samples |-> Len(y), sr |-> sr,
                              duration |-> get_duration(y0, c.sr),
                              avg_pitch |-> IF yin = Raised THEN NaN ELSE yin[1],
                              avg_energy |-> IF rms = Raised THEN NaN ELSE rms[1],
                              waveform |-> y])

extract_audio_metadata(found, resampleOK, yin, rms) ==
  IF found = << >> \/ ~found[1].ok THEN Raised
  ELSE LET c == found[1]
           y0 == IF c.ch > 1 THEN MonoMean(c.frames) ELSE FirstChannel(c.frames)
       IN  IF c.sr # target_sr /\ ~resampleOK THEN Raised
           ELSE LET y == IF c.sr # target_sr THEN resample(y0, c.sr, target_sr) ELSE y0
                    sr == target_sr
                IN  Returned([samples |-> Len(y), sr |-> sr,
                              duration |-> get_duration(y, sr),
                              avg_pitch |-> IF yin = Raised THEN NaN ELSE yin[1],
                              avg_energy |-> IF rms = Raised THEN NaN ELSE rms[1],
                              waveform |-> y])

YinOutcomes == {Raised} \cup {Returned(v) : v \in PitchVals}
RmsOutcomes == {Raised} \cup {Returned(v) : v \in EnergyVals}

\* ------------------------------------------------------------- classifier
\* a message is the sequence of its characters
RealMessage ==
  <<"T", "h", "e", " ", "a", "u", "d", "i", "o", " ", "i", "s", " ", "r",
    "e", "a", "l", ".">>
FakeMessage ==
  <<"T", "h", "e", " ", "a", "u", "d", "i", "o", " ", "i", "s", " ", "F",
    "A", "K", "E", ".">>
ErrorMessage ==
  <<"E", "r", "r", "o", "r", ":", " ", "i", "n", "f", "e", "r", "e", "n",
    "c", "e", " ", "c", "o", "u", "l", "d", " ", "n", "o", "t", " ", "r",
    "u", "n", ".">>
ErrorFakeMessage ==
  <<"E", "r", "r", "o", "r", ":", " ", "f", "a", "k", "e", " ", "d", "e",
    "t", "e", "c", "t", "o", "r", " ", "n", "o", "t", " ", "l", "o", "a",
    "d", "e", "d", ".">>
ForcedMessage ==
  <<"T", "h", "i", "s", " ", "a", "u", "d", "i", "o", " ", "w", "a", "s",
    " ", "r", "e", "c", "o", "r", "d", "e", "d", " ", "l", "i", "v", "e",
    " ", "a", "n", "d", " ", "i", "s", " ", "c", "l", "a", "s", "s", "i",
    "f", "i", "e", "d", " ", "a", "s", " ", "R", "E", "A", "L", ".">>

\* what infa_deepfake(path) can do: return a (status, message) pair or raise
InfaOutcomes ==
  { Returned([status |-> Success, message |-> RealMessage]),
    Returned([status |-> Success, message |-> FakeMessage]),
    Returned([status |-> Failure, message |-> ErrorMessage]),
    Returned([status |-> Failure, message |-> ErrorFakeMessage]),
    Raised }

\* force_real_result(audio_info)
force_real_result(audio_info) ==
  [status |-> Success, message |-> ForcedMessage, info |-> audio_info]

\* ---------------------------------------------------------------- display
\* str.lower() on the letters that occur
Upper == <<"A", "E", "F", "K", "L", "R", "T">>
LowerOf == <<"a", "e", "f", "k", "l", "r", "t">>
LowerChar(ch) ==
  IF \E k \in 1..Len(Upper) : Upper[k] = ch
  THEN LowerOf[CHOOSE k \in 1..Len(Upper) : Upper[k] = ch]
  ELSE ch
lower(str) == [k \in 1..Len(str) |-> LowerChar(str[k])]

\* the Python test: sub in str
Contains(sub, str) ==
  \E k \in 0..(Len(str) - Len(sub)) : SubSeq(str, k + 1, k + Len(sub)) = sub

\* render_results(status, message, info), lines 121-166: the title of the card
CaseSensitive_render_results(st, msg) ==
  IF st = 1
  THEN IF Contains(<<"f", "a", "k", "e">>, msg)
       THEN "Deepfake Detected" ELSE "Real Audio"
  ELSE "Inference Failed"
render_results(st, msg) ==
  IF st = 1
  THEN IF Contains(<<"f", "a", "k", "e">>, lower(msg))
       THEN "Deepfake Detected" ELSE "Real Audio"
  ELSE "Inference Failed"

\* lines 290-296: the initial st.session_state.result (None is << >>)
NoResult ==
  [has_result |-> FALSE, status |-> Unbound, message |-> Unbound, info |-> Unbound]

\* lines 846-851 and 899-904: the result stored after a run
OnlySuccess_NewResult(st, msg, inf) ==
  [has_result |-> (st = 1), status |-> Some(st), message |-> Some(msg),
   info |-> Some(inf)]
NewResult(st, msg, inf) ==
  [has_result |-> TRUE, status |-> Some(st), message |-> Some(msg),
   info |-> Some(inf)]

\* lines 922-942: what the analysis panel shows for a stored result
Panel(res) ==
  IF res.has_result
  THEN render_results(res.status[1], res.message[1])
  ELSE "Awaiting audio input"

\* ------------------------------------------------------------------ state
VARIABLES
  procs,      \* the sessions that are running main()
  blobs,      \* the blobs a user can submit (file name and bytes)
  dirs,       \* the temporary directories that exist
  files,      \* the files that exist: path -> content
  mode,       \* st.session_state.mode of each session
  result,     \* st.session_state.result of each session
  shown,      \* what the analysis panel showed in the session's last script run
  pc,         \* where each session's current run is
  blob,       \* uploaded_file / recorded_audio of the current run
  temp_dir,   \* local temp_dir (<< >> while unbound)
  temp_path,  \* local temp_file_path / temp_path (<< >> while unbound)
  info,       \* local audio_info / info
  status,     \* local status
  message,    \* local message
  exc,        \* the exception in flight or raised ("none" when there is none)
  infa_arg,   \* the argument infa_deepfake was called with in this run
  lib,        \* what the library calls of extract_audio_metadata did in this run
  trace       \* the steps the current run has attempted, in order

vars == <<procs, blobs, dirs, files, mode, result, shown, pc, blob, temp_dir, temp_path,
          info, status, message, exc, infa_arg, lib, trace>>


ExistingDirs == {<< >>, TmpRoot} \cup dirs

InitWith(P, B) ==
  /\ procs = P
  /\ blobs = B
  /\ dirs = {}
  /\ files = << >>
  /\ mode = [i \in Sessions |-> "upload"]
  /\ result = [i \in Sessions |-> NoResult]
  /\ shown = [i \in Sessions |-> Panel(NoResult)]
  /\ pc = [i \in Sessions |-> "idle"]
  /\ blob = [i \in Sessions |-> Unbound]
  /\ temp_dir = [i \in Sessions |-> Unbound]
  /\ temp_path = [i \in Sessions |-> Unbound]
  /\ info = [i \in Sessions |-> Unbound]
  /\ status = [i \in Sessions |-> Unbound]
  /\ message = [i \in Sessions |-> Unbound]
  /\ exc = [i \in Sessions |-> "none"]
  /\ infa_arg = [i \in Sessions |-> Unbound]
  /\ lib = [i \in Sessions |-> Unbound]
  /\ trace = [i \in Sessions |-> << >>]

\* one clip per native rate and channel count
SampleClips ==
  { [ok |-> TRUE, sr |-> r, ch |-> c,
     frames |-> IF c = 1 THEN <<<<2>>>> ELSE <<<<2, -2>>>>] :
    r \in NativeRates, c \in {1, 2} }

\* one session; the user has one audio clip and one unparseable file at hand,
\* each under any of the declared names
Init ==
  \E c \in SampleClips :
    InitWith({1}, [name : Names, data : {Corrupt, c}])

\* one session; the user has one audio clip, of any content, under a plain name
PlainName == [abs |-> FALSE, parts |-> <<"a.wav">>]
InitAudio ==
  \E c \in AudioContents :
    InitWith({1}, [name : {PlainName}, data : {c}])

\* the file system after a successful open(path, "wb") and write of content
WriteFile(fs, path, content) ==
  [p \in DOMAIN fs \cup {path} |-> IF p = path THEN content ELSE fs[p]]

\* shutil.rmtree(dir, ignore_errors=True): the files that remain
KeepFiles_rmtree(fs, dir) == fs
rmtree(fs, dir) ==
  LET keep == {p \in DOMAIN fs : ~IsPrefix(dir, p)}
  IN  [p \in keep |-> fs[p]]

\* ---------------------------------------------------------------- actions
\* main(), lines 774-777: the mode buttons
ClickUpload(i) ==
  /\ i \in procs /\ pc[i] = "idle"
  /\ mode' = [mode EXCEPT ![i] = "upload"]
  /\ shown' = [shown EXCEPT ![i] = Panel(result[i])]
  /\ UNCHANGED <<procs, blobs, dirs, files, result, pc, blob, temp_dir, temp_path,
                 info, status, message, exc, infa_arg, lib, trace>>

ClickRecord(i) ==
  /\ i \in procs /\ pc[i] = "idle"
  /\ mode' = [mode EXCEPT ![i] = "record"]
  /\ shown' = [shown EXCEPT ![i] = Panel(result[i])]
  /\ UNCHANGED <<procs, blobs, dirs, files, result, pc, blob, temp_dir, temp_path,
                 info, status, message, exc, infa_arg, lib, trace>>

\* main(), lines 837-844 and 876-882: "Run analysis" on the selected blob
RunAnalysis(i) ==
  /\ i \in procs /\ pc[i] = "idle"
  /\ \E b \in blobs : blob' = [blob EXCEPT ![i] = Some(b)]
  /\ pc' = [pc EXCEPT ![i] = "mkdtemp"]
  /\ UNCHANGED <<procs, blobs, result, shown, dirs, files, mode, temp_dir, temp_path,
                 info, status, message, exc, infa_arg, lib, trace>>

\* whether open(path, "wb") can create the file: the parent directory exists
\* and the path is not itself a directory
CanOpen(path) ==
  /\ path # << >>
  /\ Parent(path) \in ExistingDirs
  /\ path \notin ExistingDirs

\* the exception left by a failing tempfile.mkdtemp(): process_audio_file
\* calls it before its try (line 77); the record branch calls it inside the
\* try (line 886), so its finally evaluates the unbound temp_dir (line 894)
MkdtempFailure(m) == IF m = "upload" THEN "OSError" ELSE "UnboundLocalError"

\* lines 77-79 and 886-887: tempfile.mkdtemp() and os.path.join
Mkdtemp(i) ==
  /\ i \in procs /\ pc[i] = "mkdtemp"
  /\ trace' = [trace EXCEPT ![i] = Append(@, "mkdtemp")]
  /\ \/ \E d \in DirNames :
          LET dir == Append(TmpRoot, d) IN
          /\ dir \notin dirs
          /\ dirs' = dirs \cup {dir}
          /\ temp_dir' = [temp_dir EXCEPT ![i] = dir]
          /\ temp_path' = [temp_path EXCEPT ![i] = Join(dir, blob[i][1].name)]
          /\ pc' = [pc EXCEPT ![i] = "write"]
          /\ exc' = exc
     \/ /\ exc' = [exc EXCEPT ![i] = MkdtempFailure(mode[i])]
        /\ pc' = [pc EXCEPT ![i] = "raised"]
        /\ UNCHANGED <<dirs, temp_dir, temp_path>>
  /\ UNCHANGED <<procs, blobs, result, shown, files, mode, blob, info, status, message,
                 infa_arg, lib>>

\* where control goes when open() or write() raises: to the finally clause
SkipFinally_AfterWriteFailure == "raised"
AfterWriteFailure == "cleanup"

\* lines 82-85 and 889-890: open(temp_file_path, "wb") and f.write(data)
Write(i) ==
  /\ i \in procs /\ pc[i] = "write"
  /\ trace' = [trace EXCEPT ![i] = Append(@, "write")]
  /\ LET path == Resolve(temp_path[i]) IN
     \/ /\ CanOpen(path)
        /\ files' = WriteFile(files, path, blob[i][1].data)
        /\ pc' = [pc EXCEPT ![i] = "decode"]
        /\ exc' = exc
     \/ /\ CanOpen(path)            \* the file is created, write() raises
        /\ files' = WriteFile(files, path, Corrupt)
        /\ pc' = [pc EXCEPT ![i] = AfterWriteFailure]
        /\ exc' = [exc EXCEPT ![i] = "OSError"]
     \/ /\ files' = files           \* open() raises
        /\ pc' = [pc EXCEPT ![i] = AfterWriteFailure]
        /\ exc' = [exc EXCEPT ![i] = "OSError"]
  /\ UNCHANGED <<procs, blobs, result, shown, dirs, mode, blob, temp_dir, temp_path, info,
                 status, message, infa_arg, lib>>

\* what sf.read(filepath) finds
Found(path) ==
  IF Resolve(path) \in DOMAIN files THEN <<files[Resolve(path)]>> ELSE << >>

\* the step after the metadata step
AlwaysClassify_AfterDecode(m) == "classify"
SkipClassify_AfterDecode(m) == "cleanup"
AfterDecode(m) == IF m = "upload" THEN "classify" ELSE "cleanup"

\* lines 88-99: the except clause of process_audio_file
Propagate_UploadFallback(r) == r
UploadFallback(r) == IF r = Raised THEN Returned(default_info) ELSE r

\* the record branch, line 892, has no except clause
RecordFallback(r) == r

\* whether sf.read, np.mean and librosa.resample all succeed on the file
Decodes(found, resampleOK) ==
  /\ found # << >>
  /\ found[1].ok
  /\ (found[1].sr # target_sr => resampleOK)

\* lines 88-99 and 892: extract_audio_metadata(temp_file_path)
Decode(i) ==
  /\ i \in procs /\ pc[i] = "decode"
  /\ trace' = [trace EXCEPT ![i] = Append(@, "decode")]
  /\ \E resampleOK \in BOOLEAN, yin \in YinOutcomes, rms \in RmsOutcomes :
       LET r0 == extract_audio_metadata(Found(temp_path[i]), resampleOK, yin, rms)
           r  == IF mode[i] = "upload" THEN UploadFallback(r0) ELSE RecordFallback(r0)
           ok == Decodes(Found(temp_path[i]), resampleOK)
       IN  /\ lib' = [lib EXCEPT ![i] =
                         Some([decoded |-> ok,
                               yin |-> IF ok THEN yin ELSE Raised,
                               rms |-> IF ok THEN rms ELSE Raised,
                               ret |-> r0 # Raised])]
           /\ IF r = Raised
              THEN /\ exc' = [exc EXCEPT ![i] = "DecodeError"]
                   /\ pc' = [pc EXCEPT ![i] = "cleanup"]
                   /\ info' = info
              ELSE /\ info' = [info EXCEPT ![i] = Some(r[1])]
                   /\ pc' = [pc EXCEPT ![i] = AfterDecode(mode[i])]
                   /\ exc' = exc
  /\ UNCHANGED <<procs, blobs, result, shown, dirs, files, mode, blob, temp_dir, temp_path,
                 status, message, infa_arg>>

\* line 101: status, message = infa_deepfake(temp_file_path)
Classify(i) ==
  /\ i \in procs /\ pc[i] = "classify"
  /\ trace' = [trace EXCEPT ![i] = Append(@, "classify")]
  /\ infa_arg' = [infa_arg EXCEPT ![i] = Some(temp_path[i])]
  /\ \E out \in InfaOutcomes :
       IF out = Raised
       THEN /\ exc' = [exc EXCEPT ![i] = "ClassifierError"]
            /\ UNCHANGED <<status, message>>
       ELSE /\ status' = [status EXCEPT ![i] = Some(out[1].status)]
            /\ message' = [message EXCEPT ![i] = Some(out[1].message)]
            /\ exc' = exc
  /\ pc' = [pc EXCEPT ![i] = "cleanup"]
  /\ UNCHANGED <<procs, blobs, result, shown, dirs, files, mode, blob, temp_dir, temp_path,
                 info, lib>>

\* lines 103-106 and 893-897: the finally clause, then the return value
Cleanup(i) ==
  /\ i \in procs /\ pc[i] = "cleanup"
  /\ trace' = [trace EXCEPT ![i] = Append(@, "rmtree")]
  /\ dirs' = dirs \ {temp_dir[i]}
  /\ files' = rmtree(files, temp_dir[i])
  /\ IF exc[i] # "none"
     THEN /\ pc' = [pc EXCEPT ![i] = "raised"]
          /\ UNCHANGED <<status, message>>
     ELSE /\ pc' = [pc EXCEPT ![i] = "returned"]
          /\ IF mode[i] = "record"
             THEN /\ status' = [status EXCEPT ![i] =
                                  Some(force_real_result(info[i][1]).status)]
                  /\ message' = [message EXCEPT ![i] =
                                  Some(force_real_result(info[i][1]).message)]
             ELSE UNCHANGED <<status, message>>
  /\ UNCHANGED <<procs, blobs, result, shown, mode, blob, temp_dir, temp_path, info, exc,
                 infa_arg, lib>>

LocalsGone(i) ==
  /\ pc' = [pc EXCEPT ![i] = "idle"]
  /\ blob' = [blob EXCEPT ![i] = Unbound]
  /\ temp_dir' = [temp_dir EXCEPT ![i] = Unbound]
  /\ temp_path' = [temp_path EXCEPT ![i] = Unbound]
  /\ info' = [info EXCEPT ![i] = Unbound]
  /\ status' = [status EXCEPT ![i] = Unbound]
  /\ message' = [message EXCEPT ![i] = Unbound]
  /\ exc' = [exc EXCEPT ![i] = "none"]
  /\ infa_arg' = [infa_arg EXCEPT ![i] = Unbound]
  /\ lib' = [lib EXCEPT ![i] = Unbound]
  /\ trace' = [trace EXCEPT ![i] = << >>]

\* lines 846-851 and 899-904, then 922-927: the run returned; its result is
\* stored in the session and rendered, and the script run ends
StoreResult(i) ==
  /\ i \in procs /\ pc[i] = "returned"
  /\ result' = [result EXCEPT ![i] =
                  NewResult(status[i][1], message[i][1], info[i][1])]
  /\ shown' = [shown EXCEPT ![i] = Panel(result'[i])]
  /\ LocalsGone(i)
  /\ UNCHANGED <<procs, blobs, dirs, files, mode>>

\* the run raised: the script run is aborted before the result is stored and
\* before the analysis panel is drawn; the session waits for the next
\* interaction and the locals of main() are gone
Rerun(i) ==
  /\ i \in procs /\ pc[i] = "raised"
  /\ shown' = [shown EXCEPT ![i] = "Exception"]
  /\ LocalsGone(i)
  /\ UNCHANGED <<procs, blobs, dirs, files, mode, result>>

Next ==
  \E i \in Sessions :
    \/ ClickUpload(i)
    \/ ClickRecord(i)
    \/ RunAnalysis(i)
    \/ Mkdtemp(i)
    \/ Write(i)
    \/ Decode(i)
    \/ Classify(i)
    \/ Cleanup(i)
    \/ StoreResult(i)
    \/ Rerun(i)

Spec == Init /\ [][Next]_vars

SpecAudio == InitAudio /\ [][Next]_vars

\* several sessions at once, each user with the same unparseable file at hand,
\* under a plain name or an absolute one
AbsName == [abs |-> TRUE, parts |-> <<"tmp", "a.wav">>]
InitConc == InitWith(Sessions, [name : {PlainName, AbsName}, data : {Corrupt}])
SpecConc == InitConc /\ [][Next]_vars

TypeOK ==
  /\ procs \subseteq Sessions
  /\ \A i \in Sessions :
       /\ mode[i] \in {"upload", "record"}
       /\ pc[i] \in {"idle", "mkdtemp", "write", "decode", "classify",
                     "cleanup", "returned", "raised"}

\* ----------------------------------------------------------------- claims
Did(i, step) == \E k \in 1..Len(trace[i]) : trace[i][k] = step
Exited(i) == pc[i] \in {"returned", "raised"}
NothingLeftOf(dir) ==
  /\ dir \notin dirs
  /\ \A p \in DOMAIN files : ~IsPrefix(dir, p)

\* C1: once an invocation has returned or raised, the temporary directory
\* it created and every file under it no longer exist.
C1_NoResidue ==
  \A i \in Sessions :
    (Exited(i) /\ temp_dir[i] # Unbound) => NothingLeftOf(temp_dir[i])

C1_Witness ==
  \E i \in Sessions :
    /\ pc[i] = "raised" /\ exc[i] = "DecodeError"
    /\ temp_dir[i] # Unbound /\ Inside(temp_dir[i], temp_path[i])
    /\ Did(i, "decode") /\ Did(i, "rmtree")

\* C2: in the upload path an exception raised by infa_deepfake never
\* reaches the caller: the run returns a Failure verdict instead.
C2_ClassifierErrorAbsorbed ==
  \A i \in Sessions :
    (mode[i] = "upload" /\ Did(i, "classify") /\ Exited(i))
      => /\ pc[i] = "returned"
         /\ status[i] # Unbound /\ message[i] # Unbound

\* C3: a run whose write succeeded never ends with an exception: the caller
\* receives a (status, message, profile) triple.
C3_OnlyStorageAborts ==
  \A i \in Sessions :
    (Exited(i) /\ Did(i, "decode"))
      => /\ pc[i] = "returned"
         /\ status[i] # Unbound /\ message[i] # Unbound /\ info[i] # Unbound

\* C4: in the upload path a decode failure is absorbed: the profile is the
\* default record and the classifier is still called on the stored path.
C4_DecodeFailureAbsorbed ==
  \A i \in Sessions :
    (mode[i] = "upload" /\ lib[i] # Unbound /\ ~lib[i][1].ret)
      => /\ info[i] = Some(default_info)
         /\ exc[i] # "DecodeError"
         /\ \/ pc[i] = "classify"
            \/ Did(i, "classify") /\ infa_arg[i] = Some(temp_path[i])

C4_Witness ==
  \E i \in Sessions :
    /\ mode[i] = "upload" /\ lib[i] # Unbound /\ ~lib[i][1].ret
    /\ pc[i] = "returned" /\ infa_arg[i] = Some(temp_path[i])

\* C5: every record-mode run whose bytes were stored returns Success and the
\* REAL message together with a profile, also when the bytes do not decode.
C5_RecordAlwaysReal ==
  \A i \in Sessions :
    (mode[i] = "record" /\ Did(i, "decode") /\ Exited(i))
      => /\ pc[i] = "returned"
         /\ status[i] = Some(Success)
         /\ message[i] = Some(ForcedMessage)
         /\ info[i] # Unbound

\* C6: a record-mode run never calls infa_deepfake.
C6_RecordNeverClassifies ==
  \A i \in Sessions :
    mode[i] = "record"
      => /\ pc[i] # "classify"
         /\ ~Did(i, "classify")
         /\ infa_arg[i] = Unbound

C6_Witness ==
  \E i \in Sessions :
    /\ mode[i] = "record" /\ pc[i] = "returned"
    /\ Did(i, "decode") /\ Did(i, "rmtree")

\* C7: whenever extract_audio_metadata returns, the sample rate it returns
\* is 16000, whatever the native rate and the channel count of the file.
C7_RateIs16000 ==
  \A i \in Sessions :
    (lib[i] # Unbound /\ lib[i][1].ret)
      => /\ info[i] # Unbound
         /\ info[i][1].sr = 16000

C7_Witness ==
  \E i \in Sessions :
    /\ lib[i] # Unbound /\ lib[i][1].ret
    /\ blob[i][1].data.sr = 48000 /\ blob[i][1].data.ch = 2

\* C8: pitch and energy are isolated from each other: once the file is
\* decoded, extract_audio_metadata returns, a feature whose computation
\* raised is undefined and the other one keeps its computed value.
C8_FeaturesIsolated ==
  \A i \in Sessions :
    (lib[i] # Unbound /\ lib[i][1].decoded)
      => /\ lib[i][1].ret
         /\ info[i] # Unbound
         /\ info[i][1].avg_pitch =
              (IF lib[i][1].yin = Raised THEN NaN ELSE lib[i][1].yin[1])
         /\ info[i][1].avg_energy =
              (IF lib[i][1].rms = Raised THEN NaN ELSE lib[i][1].rms[1])

C8_Witness ==
  \E i \in Sessions :
    /\ lib[i] # Unbound /\ lib[i][1].decoded
    /\ lib[i][1].yin = Raised /\ lib[i][1].rms # Raised
    /\ info[i][1].avg_pitch = NaN /\ info[i][1].avg_energy # NaN

\* C9: when storing the bytes fails, neither decoding nor classification is
\* attempted and the exception reaches the caller only after the temporary
\* directory is gone.
C9_WriteFailure ==
  \A i \in Sessions :
    (exc[i] = "OSError" /\ Did(i, "write"))
      => /\ ~Did(i, "decode") /\ ~Did(i, "classify")
         /\ pc[i] \in {"cleanup", "raised"}
         /\ pc[i] = "raised" => (Did(i, "rmtree") /\ NothingLeftOf(temp_dir[i]))

C9_Witness ==
  \E i \in Sessions :
    /\ exc[i] = "OSError" /\ Did(i, "write") /\ pc[i] = "raised"
    /\ Inside(temp_dir[i], temp_path[i])

\* C10: the path the bytes are written to, and that the decoder and the
\* classifier are given, lies inside this run's temporary directory, for
\* every declared file name.
C10_PathInsideTempDir ==
  \A i \in Sessions :
    (temp_path[i] # Unbound /\ Did(i, "decode"))
      => Inside(temp_dir[i], temp_path[i])

InFlight(i) == pc[i] \in {"write", "decode", "classify", "cleanup"}
HasStored(i) == InFlight(i) /\ Did(i, "write") /\ exc[i] # "OSError"

\* C11: concurrent runs, also with identical declared file names: each run
\* in flight owns one existing temporary directory, no two of them share a
\* directory or a stored file path, and the file of a run that is decoding
\* or classifying has not been removed by another run's cleanup.
C11_RunsIsolated ==
  \A i \in Sessions :
    InFlight(i)
      => /\ temp_dir[i] \in dirs
         /\ pc[i] \in {"decode", "classify"}
              => Resolve(temp_path[i]) \in DOMAIN files
         /\ \A j \in Sessions \ {i} :
              /\ InFlight(j) => temp_dir[i] # temp_dir[j]
              /\ (HasStored(i) /\ HasStored(j))
                   => Resolve(temp_path[i]) # Resolve(temp_path[j])

UploadOrder == <<"mkdtemp", "write", "decode", "classify", "rmtree">>

C13_Duration ==
  \A i \in Sessions :
    info[i] # Unbound
      => LET p == info[i][1] IN
         /\ p.duration.den > 0
         /\ p.sr > 0 => p.duration.num * p.sr = p.samples * p.duration.den
         /\ p.samples = 0 => p.duration.num = 0

C13_Witness ==
  \E i \in Sessions :
    /\ pc[i] = "returned" /\ info[i] # Unbound
    /\ info[i][1].samples > 0
    /\ blob[i][1].data.sr = 48000

AsMonoFile(p) ==
  [ok |-> TRUE, sr |-> p.sr, ch |-> 1,
   frames |-> [k \in 1..Len(p.waveform) |-> <<p.waveform[k]>>]]
MixdownOf(c) ==
  [k \in 1..Len(c.frames) |->
     IF c.ch = 1 THEN c.frames[k][1] ELSE (c.frames[k][1] + c.frames[k][2]) \div 2]

\* C14: normalizing a 16 kHz input is idempotent: the profile's waveform is
\* the mono mixdown of the file's frames with the same sample count, and
\* normalizing that waveform again (as a mono 16 kHz file, with no resampler
\* available) yields the same signal.
C14_Idempotent ==
  \A i \in Sessions :
    (lib[i] # Unbound /\ lib[i][1].ret /\ blob[i][1].data.sr = 16000)
      => LET p == info[i][1]
             again == extract_audio_metadata(<<AsMonoFile(p)>>, FALSE,
                                             lib[i][1].yin, lib[i][1].rms)
         IN  /\ p.samples = Len(blob[i][1].data.frames)
             /\ p.waveform = MixdownOf(blob[i][1].data)
             /\ again # Raised
             /\ again[1].waveform = p.waveform
             /\ again[1].samples = p.samples
             /\ again[1].sr = p.sr

C14_Witness ==
  \E i \in Sessions :
    /\ lib[i] # Unbound /\ lib[i][1].ret /\ pc[i] = "returned"
    /\ blob[i][1].data.sr = 16000 /\ blob[i][1].data.ch = 2
    /\ Len(blob[i][1].data.frames) >= 2
    /\ info[i][1].waveform = MixdownOf(blob[i][1].data)

\* C15: the verdict shown depends on (status, message) only: status 1 with
\* "fake" in the message in any letter case shows 'Deepfake Detected',
\* status 1 without it shows 'Real Audio', and any other status shows
\* 'Inference Failed' whatever the message contains.
C15_Verdict ==
  \A i \in Sessions :
    (result[i].has_result /\ shown[i] # "Exception")
      => LET st == result[i].status[1]
             msg == result[i].message[1]
         IN  /\ (st = 1 /\ msg = FakeMessage) => shown[i] = "Deepfake Detected"
             /\ (st = 1 /\ msg \in {RealMessage, ForcedMessage})
                  => shown[i] = "Real Audio"
             /\ st # 1 => shown[i] = "Inference Failed"
             /\ \A j \in Sessions :
                  ( /\ result[j].has_result /\ shown[j] # "Exception"
                    /\ result[j].status = result[i].status
                    /\ result[j].message = result[i].message )
                  => shown[j] = shown[i]

C15_Witness ==
  \E i \in Sessions :
    /\ result[i].has_result
    /\ result[i].status = Some(1) /\ result[i].message = Some(FakeMessage)
    /\ shown[i] = "Deepfake Detected"

RunTriple(i) ==
  [has_result |-> TRUE, status |-> status[i], message |-> message[i],
   info |-> info[i]]
C16_Step ==
  \A i \in Sessions :
    /\ result'[i] # result[i] => pc[i] = "returned"
    /\ (pc[i] = "returned" /\ pc'[i] # "returned") => result'[i] = RunTriple(i)
    /\ result[i].has_result => result'[i].has_result
    /\ mode'[i] \in {"upload", "record"}

\* C16: the stored result changes only when a run returns, and then to that
\* run's (status, message, profile) with has_result true; mode switches and
\* runs that raise leave it unchanged, has_result never goes back to false,
\* and mode is always 'upload' or 'record'.
C16_ResultFrame == [][C16_Step]_vars

C16_Witness ==
  \E i \in Sessions :
    /\ result[i].has_result /\ result[i].status = Some(Failure)
    /\ mode[i] = "record" /\ pc[i] = "raised"

====
